---- MODULE Spec2Model ----
(***************************************************************************)
(* Model of gradio_app.py: run_inference (the supervisor), the child       *)
(* process it starts, the pipe between them, and process_output (the       *)
(* output pump thread) feeding a queue.Queue polled by run_inference.      *)
(*                                                                         *)
(* Fractions passed to progress() are kept exactly, in thousandths         *)
(* (0.2 is 200, 1.0 is 1000).  A line is the sequence of its characters    *)
(* without the terminating newline; BAD stands for a byte that is not      *)
(* valid UTF-8.                                                            *)
(***************************************************************************)
EXTENDS Integers, Sequences, FiniteSets, TLC

\* ---------------------------------------------------------------- bounds
MaxLines == 2          \* lines the child writes in one run
PipeCap == 2           \* lines the OS pipe holds before the child blocks
MaxLen == 4            \* characters of a line handed to the classifier alone

\* ------------------------------------------------------------- constants
None == "None"
BAD == "BAD"
One == 1000              \* the fraction 1.0, in thousandths

Digits == {"0", "1", "2", "3", "4", "5", "6", "7", "8", "9"}

Whitespace == {" "}

DigitVal(c) ==
  CASE c = "0" -> 0 [] c = "1" -> 1 [] c = "2" -> 2 [] c = "3" -> 3
    [] c = "4" -> 4 [] c = "5" -> 5 [] c = "6" -> 6 [] c = "7" -> 7
    [] c = "8" -> 8 [] c = "9" -> 9

\* int(match.group(1))
RECURSIVE IntOf(_)
IntOf(s) ==
  IF s = <<>> THEN 0
  ELSE IntOf(SubSeq(s, 1, Len(s) - 1)) * 10 + DigitVal(s[Len(s)])

\* b'%|' in line
ContainsMarker(line) ==
  \E i \in 1..(Len(line) - 1) : line[i] = "%" /\ line[i + 1] = "|"

\* line.decode() succeeds (strict UTF-8)
Decodable(line) == \A i \in 1..Len(line) : line[i] # BAD

\* positions at which r'(\d+)%\|' matches: a run of digits i..k followed by %|
MatchAt(line, i, k) ==
  /\ i <= k
  /\ k + 2 <= Len(line)
  /\ \A j \in i..k : line[j] \in Digits
  /\ line[k + 1] = "%"
  /\ line[k + 2] = "|"

MatchStarts(line) ==
  {i \in 1..Len(line) : \E k \in i..Len(line) : MatchAt(line, i, k)}

\* re.search(pattern, text): the leftmost match, None when there is none
HasMatch(line) == MatchStarts(line) # {}

MatchGroup(line) ==
  LET i == CHOOSE a \in MatchStarts(line) : \A b \in MatchStarts(line) : a <= b
      k == CHOOSE e \in i..Len(line) : MatchAt(line, i, e)
  IN  SubSeq(line, i, k)

\* str.strip()
RECURSIVE LStrip(_)
LStrip(s) ==
  IF s # <<>> /\ Head(s) \in Whitespace THEN LStrip(Tail(s)) ELSE s

RECURSIVE RStrip(_)
RStrip(s) ==
  IF s # <<>> /\ s[Len(s)] \in Whitespace
  THEN RStrip(SubSeq(s, 1, Len(s) - 1)) ELSE s

Strip(s) == LStrip(RStrip(s))

ProgressEvent(n) == [type |-> "progress", val |-> n, text |-> <<>>]
MessageEvent(t) == [type |-> "message", val |-> 0, text |-> t]

\* one pass of the body of process_output's loop for a line that was read:
\* the events put on the queue (none or one), and whether decode() raised
Raises(line) == ~Decodable(line)

Classify(line) ==
  IF Raises(line) THEN <<>>
  ELSE IF ContainsMarker(line)
       THEN IF HasMatch(line)
            THEN <<ProgressEvent(IntOf(MatchGroup(line)))>>
            ELSE <<>>
       ELSE <<MessageEvent(Strip(line))>>

\* the events of a sequence of lines; the pump stops at the line that raises
RECURSIVE ClassifyAll(_)
ClassifyAll(ls) ==
  IF ls = <<>> THEN <<>>
  ELSE IF Raises(Head(ls)) THEN <<>>
  ELSE Classify(Head(ls)) \o ClassifyAll(Tail(ls))

\* q.put appends at the tail of the FIFO
QPutFront(queue, evs) == evs \o queue
QPut(queue, evs) == queue \o evs

\* ----------------------------------------------------------- stage table
StageNames == <<"starting", "image_processing", "generation", "finalizing">>

stages(name) ==
  CASE name = "starting" -> 100
    [] name = "image_processing" -> 100
    [] name = "generation" -> 700
    [] name = "finalizing" -> 100

\* overall_progress for a child percentage msg
RemapNoBase(msg) == (msg * stages("generation")) \div 100
Remap(msg) ==
  stages("starting") + stages("image_processing")
    + (msg * stages("generation")) \div 100

Report(f, d, s) == [frac |-> f, desc |-> d, stage |-> s]

\* check_image_ratio
check_image_ratio_le(sz) ==
  (IF sz[1] - sz[2] < 0 THEN sz[2] - sz[1] ELSE sz[1] - sz[2]) <= 10
Abs(x) == IF x < 0 THEN -x ELSE x
check_image_ratio(sz) == Abs(sz[1] - sz[2]) < 10

\* Python truthiness of an input path: None and "" are falsy
Falsy(x) == x = None \/ x = ""

\* Path(output_dir).glob("*.mp4")
GlobAll(fs) == fs
Glob(fs) == {f \in fs : f.ext = "mp4"}

\* ----------------------------------------------------- environment inputs
ImageInputs == {None, "", "face.png"}
AudioInputs == {None, "", "voice.wav"}
ImageSizes == {<<512, 512>>, <<800, 600>>, <<512, 521>>, <<522, 512>>}
ExitCodes == {0, 1, -9}
NotSet == <<>>                 \* an exit status that is still None
Status(c) == <<c>>
NoPath == [name |-> "None", ext |-> ""]
Mp4(n) == [name |-> n, ext |-> "mp4"]
Txt(n) == [name |-> n, ext |-> "txt"]
OutputDirs == {{}, {Mp4("out")}, {Txt("log")}, {Mp4("a"), Mp4("b")}}

ChildLines ==
  { <<" ", "5", "%", "|">>,
    <<"1", "0", "0", "%", "|", "x">>,
    <<"2", "5", "0", "%", "|">>,
    <<"x", " ">>,
    <<"%", "|">>,
    <<"x", BAD>> }

MissingInput == [video |-> NoPath,
                 status |-> "Please provide both image and audio files.",
                 detail |-> ""]
SquareError == [video |-> NoPath,
                status |-> "Error processing image: ",
                detail |-> "Command ffmpeg returned non-zero exit status 1."]
GenerationError == [video |-> NoPath, status |-> "Error during generation",
                    detail |-> ""]
NoOutput == [video |-> NoPath, status |-> "No output video generated",
             detail |-> ""]
Success(f) == [video |-> f, status |-> "Generation completed successfully!",
               detail |-> ""]
NoResult == [video |-> NoPath, status |-> "", detail |-> ""]

VARIABLES
  image, audio, allow_non_square, size,   \* arguments and the image on disk
  pc,                                     \* position in run_inference
  result,                                 \* the returned pair
  reports,                                \* calls of progress(), in order
  temp_dir,                               \* mkdtemp() was called
  moved,                                  \* os.replace() moved the inputs
  image_path,                             \* path handed to inference.py
  square,                                 \* none, skipped, running, ok, failed
  child,                                  \* notstarted, running, exited
  exitcode,                               \* the child's exit status
  files,                                  \* contents of output_dir
  written,                                \* lines the child wrote so far
  pipe,                                   \* lines in the pipe, oldest first
  pump,                                   \* idle, readline, classify, done, crashed
  cur,                                    \* the line the pump holds
  linesRead,                              \* lines readline() returned so far
  q,                                      \* the queue.Queue
  consumed,                               \* events get_nowait() returned
  returncode                              \* process.returncode

vars == <<image, audio, allow_non_square, size, pc, result, reports, temp_dir,
          moved, image_path, square, child, exitcode, files, written, pipe,
          pump, cur, linesRead, q, consumed, returncode>>

inputVars == <<image, audio, allow_non_square, size>>
childVars == <<child, exitcode, files, written, pipe>>
pumpVars == <<pump, cur, linesRead>>
prepVars == <<temp_dir, moved, image_path, square>>

Init ==
  /\ image \in ImageInputs
  /\ audio \in AudioInputs
  /\ allow_non_square \in BOOLEAN
  /\ size \in ImageSizes
  /\ pc = "start"
  /\ result = NoResult
  /\ reports = <<>>
  /\ temp_dir = FALSE
  /\ moved = FALSE
  /\ image_path = None
  /\ square = "none"
  /\ child = "notstarted"
  /\ exitcode = NotSet
  /\ files = {}
  /\ written = 0
  /\ pipe = <<>>
  /\ pump = "idle"
  /\ cur = <<>>
  /\ linesRead = <<>>
  /\ q = <<>>
  /\ consumed = <<>>
  /\ returncode = NotSet

\* ------------------------------------------------------------ supervisor
\* lines 45-67: input check, progress(0), mkdtemp, os.replace
ValidateAnd ==
  /\ pc = "start"
  /\ IF Falsy(image) /\ Falsy(audio)
     THEN /\ result' = MissingInput
          /\ pc' = "done"
          /\ UNCHANGED <<reports, prepVars>>
     ELSE /\ reports' = Append(reports, Report(0, "Starting...", "starting"))
          /\ temp_dir' = TRUE
          /\ moved' = TRUE
          /\ image_path' = "input_image"
          /\ pc' = "ratio"
          /\ UNCHANGED <<result, square>>
  /\ UNCHANGED <<inputVars, childVars, pumpVars, q, consumed, returncode>>

Validate ==
  /\ pc = "start"
  /\ IF Falsy(image) \/ Falsy(audio)
     THEN /\ result' = MissingInput
          /\ pc' = "done"
          /\ UNCHANGED <<reports, prepVars>>
     ELSE /\ reports' = Append(reports, Report(0, "Starting...", "starting"))
          /\ temp_dir' = TRUE
          /\ moved' = TRUE
          /\ image_path' = "input_image"
          /\ pc' = "ratio"
          /\ UNCHANGED <<result, square>>
  /\ UNCHANGED <<inputVars, childVars, pumpVars, q, consumed, returncode>>

\* lines 70-71: the ratio check and the report that precedes squaring
CheckRatio ==
  /\ pc = "ratio"
  /\ IF ~allow_non_square /\ ~check_image_ratio(size)
     THEN /\ reports' = Append(reports,
               Report(stages("starting"),
                      "Processing image to square format...",
                      "image_processing"))
          /\ square' = "running"
          /\ pc' = "squaring"
     ELSE /\ square' = "skipped"
          /\ pc' = "launch"
          /\ UNCHANGED reports
  /\ UNCHANGED <<inputVars, result, temp_dir, moved, image_path, childVars,
                 pumpVars, q, consumed, returncode>>

\* lines 72-77 and 17-25: ffmpeg exits with status 0 or 1
MakeSquareSwallow ==
  /\ pc = "squaring"
  /\ \E status \in {0, 1} :
       IF status = 0
       THEN /\ image_path' = "square_input.png"
            /\ square' = "ok"
            /\ pc' = "launch"
            /\ UNCHANGED result
       ELSE /\ square' = "failed"
            /\ pc' = "launch"
            /\ UNCHANGED <<result, image_path>>
  /\ UNCHANGED <<inputVars, reports, temp_dir, moved, childVars, pumpVars, q,
                 consumed, returncode>>

MakeSquare ==
  /\ pc = "squaring"
  /\ \E status \in {0, 1} :
       IF status = 0
       THEN /\ image_path' = "square_input.png"
            /\ square' = "ok"
            /\ pc' = "launch"
            /\ UNCHANGED result
       ELSE /\ square' = "failed"
            /\ result' = SquareError
            /\ pc' = "done"
            /\ UNCHANGED image_path
  /\ UNCHANGED <<inputVars, reports, temp_dir, moved, childVars, pumpVars, q,
                 consumed, returncode>>

\* lines 80-113: makedirs, progress(0.2), Popen, Queue, Thread.start
Launch ==
  /\ pc = "launch"
  /\ reports' = Append(reports,
        Report(stages("starting") + stages("image_processing"),
               "Starting MEMO generation...", "generation"))
  /\ child' = "running"
  /\ q' = <<>>
  /\ pump' = "readline"
  /\ pc' = "poll"
  /\ UNCHANGED <<inputVars, result, prepVars, exitcode, files, written, pipe,
                 cur, linesRead, consumed, returncode>>

\* line 114 with "and" between the operands: a live child leads to the test
\* of q.empty() instead of the loop body
LoopPollNoWait ==
  /\ pc = "poll"
  /\ IF child = "running"
     THEN /\ pc' = "empty"
          /\ UNCHANGED returncode
     ELSE /\ returncode' = exitcode
          /\ pc' = "empty"
  /\ UNCHANGED <<inputVars, result, reports, prepVars, childVars, pumpVars, q,
                 consumed>>

\* line 114, first operand: process.poll() is None
LoopPoll ==
  /\ pc = "poll"
  /\ IF child = "running"
     THEN /\ pc' = "get"
          /\ UNCHANGED returncode
     ELSE /\ returncode' = exitcode
          /\ pc' = "empty"
  /\ UNCHANGED <<inputVars, result, reports, prepVars, childVars, pumpVars, q,
                 consumed>>

\* line 114, second operand: not q.empty()
LoopEmpty ==
  /\ pc = "empty"
  /\ pc' = IF q # <<>> THEN "get" ELSE "final"
  /\ UNCHANGED <<inputVars, result, reports, prepVars, childVars, pumpVars, q,
                 consumed, returncode>>

\* lines 115-126 reporting the highest fraction seen instead of the latest
LoopGetMonotone ==
  /\ pc = "get"
  /\ IF q = <<>>
     THEN UNCHANGED <<q, consumed, reports>>
     ELSE /\ q' = Tail(q)
          /\ consumed' = Append(consumed, Head(q))
          /\ reports' =
               IF Head(q).type = "progress"
               THEN LET last == reports[Len(reports)].frac
                        new == Remap(Head(q).val)
                    IN  Append(reports,
                          Report(IF new < last THEN last ELSE new, "",
                                 "generation"))
               ELSE reports
  /\ pc' = "poll"
  /\ UNCHANGED <<inputVars, result, prepVars, childVars, pumpVars, returncode>>

\* lines 115-126 reporting current_progress when a message is consumed
LoopGetReportsMessage ==
  /\ pc = "get"
  /\ IF q = <<>>
     THEN UNCHANGED <<q, consumed, reports>>
     ELSE /\ q' = Tail(q)
          /\ consumed' = Append(consumed, Head(q))
          /\ reports' =
               IF Head(q).type = "progress"
               THEN Append(reports, Report(Remap(Head(q).val), "", "generation"))
               ELSE Append(reports,
                      Report(stages("starting") + stages("image_processing"),
                             "", "generation"))
  /\ pc' = "poll"
  /\ UNCHANGED <<inputVars, result, prepVars, childVars, pumpVars, returncode>>

\* lines 115-126 with a blocking q.get() in place of q.get_nowait()
LoopGetBlocking ==
  /\ pc = "get"
  /\ q # <<>>
  /\ q' = Tail(q)
  /\ consumed' = Append(consumed, Head(q))
  /\ reports' = IF Head(q).type = "progress"
                THEN Append(reports, Report(Remap(Head(q).val), "", "generation"))
                ELSE reports
  /\ pc' = "poll"
  /\ UNCHANGED <<inputVars, result, prepVars, childVars, pumpVars, returncode>>

\* lines 115-126: q.get_nowait(), the report of a progress event, continue
LoopGet ==
  /\ pc = "get"
  /\ IF q = <<>>
     THEN UNCHANGED <<q, consumed, reports>>
     ELSE /\ q' = Tail(q)
          /\ consumed' = Append(consumed, Head(q))
          /\ reports' = IF Head(q).type = "progress"
                        THEN Append(reports,
                               Report(Remap(Head(q).val), "", "generation"))
                        ELSE reports
  /\ pc' = "poll"
  /\ UNCHANGED <<inputVars, result, prepVars, childVars, pumpVars, returncode>>

\* lines 129-141 deciding on the output directory alone
FinalizeIgnoreCode ==
  /\ pc = "final"
  /\ IF Glob(files) = {}
     THEN /\ result' = NoOutput
          /\ UNCHANGED reports
     ELSE /\ reports' = Append(reports, Report(One, "Complete!", "finalizing"))
          /\ \E f \in Glob(files) : result' = Success(f)
  /\ pc' = "done"
  /\ UNCHANGED <<inputVars, prepVars, childVars, pumpVars, q, consumed,
                 returncode>>

\* lines 129-141 with progress(1.0) made before the return code is tested
FinalizeReportFirst ==
  /\ pc = "final"
  /\ reports' = Append(reports, Report(One, "Complete!", "finalizing"))
  /\ IF returncode # Status(0)
     THEN result' = GenerationError
     ELSE IF Glob(files) = {}
          THEN result' = NoOutput
          ELSE \E f \in Glob(files) : result' = Success(f)
  /\ pc' = "done"
  /\ UNCHANGED <<inputVars, prepVars, childVars, pumpVars, q, consumed,
                 returncode>>

\* lines 129-141: return code, progress(1.0), glob, the returned pair
Finalize ==
  /\ pc = "final"
  /\ IF returncode # Status(0)
     THEN /\ result' = GenerationError
          /\ UNCHANGED reports
     ELSE /\ reports' = Append(reports, Report(One, "Complete!", "finalizing"))
          /\ IF Glob(files) = {}
             THEN result' = NoOutput
             ELSE \E f \in Glob(files) : result' = Success(f)
  /\ pc' = "done"
  /\ UNCHANGED <<inputVars, prepVars, childVars, pumpVars, q, consumed,
                 returncode>>

Supervisor ==
  Validate \/ CheckRatio \/ MakeSquare \/ Launch \/ LoopPoll \/ LoopEmpty
    \/ LoopGet \/ Finalize

\* ----------------------------------------------------------- child process
\* inference.py writes one line to its stdout; it blocks while the pipe is full
ChildWrite ==
  /\ child = "running"
  /\ written < MaxLines
  /\ Len(pipe) < PipeCap
  /\ \E line \in ChildLines : pipe' = Append(pipe, line)
  /\ written' = written + 1
  /\ UNCHANGED <<inputVars, pc, result, reports, prepVars, child, exitcode,
                 files, pumpVars, q, consumed, returncode>>

\* inference.py terminates: exit status, output directory, stdout closed
ChildExit ==
  /\ child = "running"
  /\ child' = "exited"
  /\ \E c \in ExitCodes : exitcode' = Status(c)
  /\ files' \in OutputDirs
  /\ UNCHANGED <<inputVars, pc, result, reports, prepVars, written, pipe,
                 pumpVars, q, consumed, returncode>>

\* ------------------------------------------------------------- output pump
\* lines 32-34: pipe.readline(), break at end of stream
PumpRead ==
  /\ pump = "readline"
  /\ IF pipe # <<>>
     THEN /\ cur' = Head(pipe)
          /\ pipe' = Tail(pipe)
          /\ linesRead' = Append(linesRead, Head(pipe))
          /\ pump' = "classify"
     ELSE /\ child = "exited"
          /\ pump' = "done"
          /\ UNCHANGED <<cur, pipe, linesRead>>
  /\ UNCHANGED <<inputVars, pc, result, reports, prepVars, child, exitcode,
                 files, written, q, consumed, returncode>>

\* lines 35-42: classify the line and q.put; an exception in decode() ends
\* the thread
PumpPut ==
  /\ pump = "classify"
  /\ IF Raises(cur)
     THEN /\ pump' = "crashed"
          /\ UNCHANGED q
     ELSE /\ q' = QPut(q, Classify(cur))
          /\ pump' = "readline"
  /\ cur' = <<>>
  /\ UNCHANGED <<inputVars, pc, result, reports, prepVars, childVars,
                 linesRead, consumed, returncode>>

Next == Supervisor \/ ChildWrite \/ ChildExit \/ PumpRead \/ PumpPut

Spec == Init /\ [][Next]_vars

\* ---------------------------------------------- the classifier on its own
\* process_output holding one line it has just read, for every line of up to
\* MaxLen characters; the only step is the loop body of lines 35-42
Alphabet == {"1", "2", "%", "|", "x", " ", BAD}

AllLines == UNION {[1..n -> Alphabet] : n \in 0..MaxLen}

InitClassify ==
  /\ image = "face.png"
  /\ audio = "voice.wav"
  /\ allow_non_square = TRUE
  /\ size = <<512, 512>>
  /\ pc = "poll"
  /\ result = NoResult
  /\ reports = <<Report(0, "Starting...", "starting"),
                 Report(stages("starting") + stages("image_processing"),
                        "Starting MEMO generation...", "generation")>>
  /\ temp_dir = TRUE
  /\ moved = TRUE
  /\ image_path = "input_image"
  /\ square = "skipped"
  /\ child = "running"
  /\ exitcode = NotSet
  /\ files = {}
  /\ written = 1
  /\ pipe = <<>>
  /\ pump = "classify"
  /\ cur \in AllLines
  /\ linesRead = <<cur>>
  /\ q = <<>>
  /\ consumed = <<>>
  /\ returncode = NotSet

SpecClassify == InitClassify /\ [][PumpPut]_vars

\* the same for the lines that are valid UTF-8 text
InitClassifyText == InitClassify /\ Decodable(cur)

SpecClassifyText == InitClassifyText /\ [][PumpPut]_vars

\* the main thread of run_inference is scheduled as long as it can step
FairSpec == Spec /\ WF_vars(Supervisor)

TypeOK ==
  /\ pc \in {"start", "ratio", "squaring", "launch", "poll", "empty", "get",
             "final", "done"}
  /\ child \in {"notstarted", "running", "exited"}
  /\ pump \in {"idle", "readline", "classify", "done", "crashed"}
  /\ square \in {"none", "skipped", "running", "ok", "failed"}
  /\ Len(pipe) <= PipeCap
  /\ written <= MaxLines
\* ------------------------------------------------------------------ helpers
IsPrefix(s, t) == Len(s) <= Len(t) /\ s = SubSeq(t, 1, Len(s))

IsProgressLine(line) ==
  Classify(line) # <<>> /\ Classify(line)[1].type = "progress"

\* run_inference has left the polling loop of line 114
LoopExited == pc = "final" \/ (pc = "done" /\ child # "notstarted")

RECURSIVE SumWeights(_)
SumWeights(names) ==
  IF names = <<>> THEN 0 ELSE stages(Head(names)) + SumWeights(Tail(names))

\* the weights of the stages that precede a stage in the table
CumulativeBefore(name) ==
  LET i == CHOOSE k \in 1..Len(StageNames) : StageNames[k] = name
  IN  SumWeights(SubSeq(StageNames, 1, i - 1))

Fracs == {reports[i].frac : i \in 1..Len(reports)}

\* ------------------------------------------------------------------- claims

\* C1: when run_inference has left the polling loop, no progress line is
\* unread in the pipe or held by the pump, and no progress event is in the
\* queue.
C1_NoProgressLost ==
  LoopExited =>
    /\ \A i \in 1..Len(pipe) : ~IsProgressLine(pipe[i])
    /\ ~(pump = "classify" /\ IsProgressLine(cur))
    /\ \A i \in 1..Len(q) : q[i].type # "progress"

\* C2: once the child process has exited, run_inference eventually returns.
C2_Returns == (child = "exited") ~> (pc = "done")

C2_Witness ==
  /\ child = "exited" /\ pc = "done" /\ returncode # NotSet
  /\ consumed # <<>>

\* C3: the pump stops reading only at end of stream: when its thread has
\* ended, the child has exited and the pipe is empty.
C3_PumpReadsToEOF ==
  pump \in {"done", "crashed"} => (child = "exited" /\ pipe = <<>>)

\* C4: the events taken from the queue are a prefix of the events of the
\* lines read so far, in the order of the lines.
C4_Order == IsPrefix(consumed, ClassifyAll(linesRead))

C4_Witness ==
  /\ Len(consumed) >= 2
  /\ consumed[1] # consumed[2]
  /\ consumed[1].type = "progress"

\* C5: every fraction reported to the caller lies in [0, 1].
C5_FractionInUnit ==
  \A i \in 1..Len(reports) : 0 <= reports[i].frac /\ reports[i].frac <= One

\* C6: with image or audio missing or empty, run_inference returns the
\* missing-input failure at once: no directory, no move, no squaring, no
\* child, no pump, no progress report.
C6_MissingInput ==
  ((Falsy(image) \/ Falsy(audio)) /\ pc # "start") =>
    /\ pc = "done"
    /\ result = MissingInput
    /\ ~temp_dir /\ ~moved
    /\ square = "none"
    /\ child = "notstarted" /\ pump = "idle"
    /\ reports = <<>>

C6_Witness ==
  pc = "done" /\ ~Falsy(image) /\ Falsy(audio) /\ result = MissingInput

\* C7: a run whose child exited with a non-zero status returns the failure
\* "Error during generation" with no output path.
C7_NonZeroExit ==
  (pc = "done" /\ child = "exited" /\ exitcode # Status(0)) =>
    result = GenerationError

C7_Witness ==
  /\ pc = "done" /\ child = "exited" /\ exitcode = Status(1)
  /\ Remap(100) \in Fracs
  /\ Glob(files) # {}
  /\ result = GenerationError

\* C8: after exit status 0 the result is a success with an .mp4 of the
\* output directory exactly when there is one, the no-output failure
\* otherwise; a result never has both an output path and a failure reason.
C8_ZeroExit ==
  /\ (pc = "done" /\ child = "exited" /\ exitcode = Status(0)) =>
        IF \E f \in files : f.ext = "mp4"
        THEN /\ result.video \in files
             /\ result.video.ext = "mp4"
             /\ result = Success(result.video)
        ELSE result = NoOutput
  /\ result.video # NoPath => result = Success(result.video)

C8_Witness ==
  /\ pc = "done" /\ exitcode = Status(0)
  /\ files = {Mp4("a"), Mp4("b")}
  /\ result = Success(Mp4("b"))

\* C9: a failed squaring step ends the run with the tool's reason and no
\* child process; a child process is started only after a skipped or a
\* successful squaring step.
C9_SquareFailure ==
  /\ square = "failed" =>
        /\ pc = "done"
        /\ result = SquareError
        /\ child = "notstarted" /\ pump = "idle"
  /\ child # "notstarted" => square \in {"skipped", "ok"}

C9_Witness == square = "failed" /\ pc = "done" /\ result = SquareError

\* C10: every reported fraction is at least the sum of the weights of the
\* stages before the stage the report belongs to.
C10_StageFloor ==
  \A i \in 1..Len(reports) :
    reports[i].frac >= CumulativeBefore(reports[i].stage)

C10_Witness ==
  /\ \E i \in 1..Len(reports) :
        reports[i].stage = "finalizing" /\ reports[i].frac >= 900
  /\ \E i \in 1..Len(reports) :
        reports[i].stage = "generation" /\ reports[i].desc = ""
  /\ Remap(100) \notin Fracs
\* ------------------------------------------------------- claims, continued
IsProgress(ev) == ev.type = "progress"

\* the progress events consumed so far, and the reports the loop made
ProgressConsumed == SelectSeq(consumed, IsProgress)

IsLoopReport(r) == r.stage = "generation" /\ r.desc = ""

LoopReports == SelectSeq(reports, IsLoopReport)

NonDecreasing(s) == \A i \in 1..(Len(s) - 1) : s[i] <= s[i + 1]

\* the lines the child has written so far, oldest first
Emitted == linesRead \o pipe

\* the percentages of the progress lines among a sequence of lines
RECURSIVE Percentages(_)
Percentages(ls) ==
  IF ls = <<>> THEN <<>>
  ELSE (IF IsProgressLine(Head(ls)) THEN <<Classify(Head(ls))[1].val>>
        ELSE <<>>) \o Percentages(Tail(ls))

ReportFracs == [i \in 1..Len(reports) |-> reports[i].frac]

\* C11: the i-th report of the loop is made for the i-th progress event
\* consumed; for a percentage p in 0..100 it is exactly 0.2 + 0.7 * p / 100,
\* within [0.2, 0.9], whatever was reported before.
C11_LinearRemap ==
  /\ Len(LoopReports) = Len(ProgressConsumed)
  /\ \A i \in 1..Len(LoopReports) :
        LET p == ProgressConsumed[i].val
            f == LoopReports[i].frac
        IN  (0 <= p /\ p <= 100) =>
              /\ 100 * f = 100 * 200 + 700 * p
              /\ 200 <= f /\ f <= 900

C11_Witness ==
  /\ Len(ProgressConsumed) = 2
  /\ ProgressConsumed[1].val = 100
  /\ ProgressConsumed[2].val = 5
  /\ LoopReports[1].frac = 900
  /\ LoopReports[2].frac = 235

\* C12: when the percentages the child emitted are non-decreasing and within
\* 0..100, the fractions reported so far are non-decreasing.
MonotoneEmission ==
  LET ps == Percentages(Emitted)
  IN  /\ NonDecreasing(ps)
      /\ \A i \in 1..Len(ps) : 0 <= ps[i] /\ ps[i] <= 100

C12_Monotone == NonDecreasing(ReportFracs) \/ ~MonotoneEmission

C12_Witness ==
  /\ pc = "done"
  /\ Percentages(Emitted) = <<5, 100>>
  /\ ReportFracs = <<0, 100, 200, 235, 900, 1000>>
\* a line has one or more digits immediately followed by %|
HasDigitsMarker(line) ==
  \E i \in 1..(Len(line) - 2) :
    line[i] \in Digits /\ line[i + 1] = "%" /\ line[i + 2] = "|"

\* the digits in front of the first %| that has a digit in front of it
FirstDigits(line) ==
  LET ends == {i \in 1..(Len(line) - 2) :
                 line[i] \in Digits /\ line[i + 1] = "%" /\ line[i + 2] = "|"}
      k == CHOOSE e \in ends : \A o \in ends : e <= o
      j == CHOOSE b \in 1..k :
             /\ \A m \in b..k : line[m] \in Digits
             /\ (b = 1 \/ line[b - 1] \notin Digits)
  IN  SubSeq(line, j, k)

\* the pump has finished the loop body for the one line it was handed
Classified == Len(linesRead) = 1 /\ pump # "classify"

\* C13: a line with digits immediately followed by %| is put on the queue as
\* one progress event whose value is the number written by the digits of the
\* first such occurrence.
C13_ProgressClassified ==
  (Classified /\ HasDigitsMarker(linesRead[1])) =>
    q = <<ProgressEvent(IntOf(FirstDigits(linesRead[1])))>>

\* C14: every line read puts exactly one event on the queue, and a line
\* without digits immediately followed by %| (a bare %| included) puts a
\* message event.
C14_OneEventPerLine ==
  Classified =>
    /\ Len(q) = 1
    /\ ~HasDigitsMarker(linesRead[1]) => q[1].type = "message"
\* C15: an iteration of the polling loop that found the child alive and the
\* queue empty passes through a sleep before the next check of the child.
C15_LoopYields ==
  [][(pc = "get" /\ q = <<>> /\ pc' # pc) => pc' = "sleep"]_vars

\* C16: consuming a message event makes no progress report, and the loop has
\* made exactly one report per progress event consumed.
C16_MessageIgnored ==
  [][(consumed' # consumed /\ consumed'[Len(consumed')].type = "message")
       => (reports' = reports /\ Len(LoopReports') = Len(ProgressConsumed'))]_vars

C16_Witness ==
  /\ Len(consumed) = 2
  /\ consumed[1].type = "progress"
  /\ consumed[2].type = "message"
  /\ Len(LoopReports) = 1
  /\ reports[Len(reports)].frac = Remap(consumed[1].val)

\* C17: when the return code is tested after the loop, the child has exited
\* and process.returncode holds its exit status.
C17_ReturncodeSet ==
  pc = "final" =>
    /\ child = "exited"
    /\ returncode # NotSet
    /\ returncode = exitcode

C17_Witness == pc = "final" /\ child = "exited" /\ returncode = Status(-9)

\* C18: the squaring tool is invoked exactly when allow_non_square is false
\* and width and height differ by 10 or more; otherwise the step is skipped
\* and the child runs on the staged input image, with no squaring report.
Squared == square \in {"running", "ok", "failed"}

C18_SquareWhen ==
  /\ square # "none" =>
        (Squared <=> (/\ ~allow_non_square
                      /\ (size[1] - size[2] >= 10 \/ size[2] - size[1] >= 10)))
  /\ (square = "skipped" /\ child # "notstarted") =>
        /\ image_path = "input_image"
        /\ \A i \in 1..Len(reports) : reports[i].stage # "image_processing"
  /\ pc \notin {"start", "ratio"} => square # "none" \/ result = MissingInput

C18_Witness ==
  /\ ~allow_non_square
  /\ size = <<512, 521>>
  /\ square = "skipped"
  /\ child = "running"
  /\ image_path = "input_image"

\* C19: the report "Complete!" (1.0) is the last report of a run, made after
\* the loop was left and only when the child exited with status 0.
C19_CompleteLast ==
  \A i \in 1..Len(reports) :
    reports[i].desc = "Complete!" =>
      /\ i = Len(reports)
      /\ reports[i].frac = One
      /\ pc = "done"
      /\ child = "exited"
      /\ exitcode = Status(0)

C19_Witness ==
  /\ pc = "done"
  /\ reports # <<>>
  /\ reports[Len(reports)].desc = "Complete!"
  /\ result = NoOutput
  /\ consumed # <<>>
====
